---- MODULE Spec2Model ----
(***************************************************************************)
(* Model of the spaced-repetition scheduler of the vocabulary tracker,     *)
(* UserWord.update_repetition (src/vocabulary/models.py), of the streak,   *)
(* XP and level methods of User (src/accounts/models.py) and of            *)
(* WritingSubmission.calculate_overall_score (src/writing/models.py).      *)
(*                                                                         *)
(* easiness_factor is a Python float (an IEEE-754 binary64).  The model    *)
(* keeps every float exactly, as a pair <<h, e>> that stands for the real  *)
(* number                                                                  *)
(*            h / 100  +  e / (25 * 2^58)                                  *)
(* h is the decimal part in hundredths, e the binary representation error  *)
(* in units of 2^-58 / 25.  Every float operation of the code is the exact *)
(* real operation followed by FRound, round-to-nearest-even onto the       *)
(* binary64 grid, so 45 * 2.9000000000000004 is 130.50000000000003 and     *)
(* round() of it is 131, as in the program, and not 130.                   *)
(***************************************************************************)
EXTENDS Integers, Naturals, Sequences, FiniteSets, TLC

(***************************************************************************)
(* Bounds of the model.                                                    *)
(***************************************************************************)
\* number of update_repetition calls explored from the default row
MaxReviews == 5
\* number of update_repetition calls explored from an arbitrary stored row
MaxAnyReviews == 2
\* number of update_repetition calls explored from the default row when the
\* clock stands still
MaxLongReviews == 7
\* number of update_repetition calls explored from the default row when the
\* qualities passed are logged
MaxLoggedReviews == 5
\* number of clock ticks that may pass while the calls are running
MaxClock == 1
\* number of days the calendar of the User specifications spans after day 0
MaxDay == 3
\* number of calls explored from the default User
MaxUserCalls == 4
\* number of add_xp calls explored from an arbitrary stored User
MaxStoredUserCalls == 1
\* number of calculate_overall_score calls explored on a submission
MaxWritingCalls == 2

(***************************************************************************)
(* binary64 arithmetic on <<h, e>>.                                        *)
(***************************************************************************)
Pow2(n) == 2 ^ n

\* an exact real with no binary error: h hundredths
Dec(h) == <<h, 0>>

FNeg(x) == <<0 - x[1], 0 - x[2]>>

FIsZero(x) == x[1] = 0 /\ x[2] = 0

\* x < 0, x a real <<h, e>>; e is far smaller than a hundredth
FIsNeg(x) == x[1] < 0 \/ (x[1] = 0 /\ x[2] < 0)

\* a >= b
FGe(a, b) == a[1] > b[1] \/ (a[1] = b[1] /\ a[2] >= b[2])

\* x >= 2^j for a real x > 0
GePow2(x, j) ==
    IF j >= 0
    THEN x[1] > 100 * Pow2(j) \/ (x[1] = 100 * Pow2(j) /\ x[2] >= 0)
    ELSE x[1] * Pow2(0 - j) > 100 \/ (x[1] * Pow2(0 - j) = 100 /\ x[2] >= 0)

\* the binary exponent of a real x >= 2^j: the e with 2^e <= x < 2^(e+1)
RECURSIVE ExponentFrom(_, _)
ExponentFrom(x, j) == IF GePow2(x, j + 1) THEN ExponentFrom(x, j + 1) ELSE j

\* the binary exponent of a real x >= 2^-6 (0.02, the smallest float of the
\* code, is above it)
Exponent(x) == ExponentFrom(x, 0 - 6)

\* the spacing of binary64 numbers in [2^j, 2^(j+1)), 2^(j-52), in units of e
Ulp(j) == 25 * Pow2(6 + j)

\* (h * 2^56 + e) mod m, for m = 25 * 2^k, with no number above 2^31:
\* h * 2^56 = 2^k * (h * 2^(56-k)), and 2^n mod 25 has period 20
ModGrid(x, k) ==
    LET p == Pow2((56 - k) % 20) % 25
        r == Pow2(k) * (((x[1] % 25) * p) % 25)
    IN  (r + x[2]) % (25 * Pow2(k))

\* round-to-nearest, ties-to-even, of a real x > 0 onto the binary64 grid
RoundPos(x) ==
    LET j    == Exponent(x)
        g    == Ulp(j)
        r    == ModGrid(x, 6 + j)
        odd  == ModGrid(x, 7 + j) >= g
        up   == 2 * r > g \/ (2 * r = g /\ odd)
    IN  IF r = 0 THEN x
        ELSE IF up THEN <<x[1], x[2] + g - r>>
        ELSE <<x[1], x[2] - r>>

\* the binary64 nearest to the real x
FRound(x) ==
    IF FIsZero(x) THEN x
    ELSE IF FIsNeg(x) THEN FNeg(RoundPos(FNeg(x)))
    ELSE RoundPos(x)

\* the float a decimal literal denotes, the literal given in hundredths
Lit(h) == FRound(Dec(h))

\* the float literals of update_repetition
F_1_3  == Lit(130)
F_0_1  == Lit(10)
F_0_08 == Lit(8)
F_0_02 == Lit(2)
F_0_2  == Lit(20)
F_2_5  == Lit(250)

\* float + float, float - float, float * float(k) for an integer k
FAdd(a, b) == FRound(<<a[1] + b[1], a[2] + b[2]>>)
FSub(a, b) == FAdd(a, FNeg(b))
FMulInt(k, a) == FRound(<<k * a[1], k * a[2]>>)

\* max(a, b) of Python: b only when b > a
FMax(a, b) == IF FGe(a, b) THEN a ELSE b

\* round(x) of Python 3 for a float x >= 0: nearest integer, ties to even
PyRound(x) ==
    LET n == x[1] \div 100
        f == x[1] % 100
    IN  IF f < 50 THEN n
        ELSE IF f > 50 THEN n + 1
        ELSE IF x[2] > 0 THEN n + 1
        ELSE IF x[2] < 0 THEN n
        ELSE IF n % 2 = 0 THEN n ELSE n + 1

(***************************************************************************)
(* The UserWord row.                                                       *)
(***************************************************************************)
VARIABLES
    word,     \* the UserWord row: the fields update_repetition reads and writes
    now,      \* the wall clock datetime.now() reads, in ticks
    calls,    \* number of update_repetition calls made so far
    call      \* the operation that ran last: its name, its argument, the row
              \* it ran on, and how many update_repetition calls in a row, this
              \* one included, were made with this same quality
VARIABLES
    log       \* the qualities passed to update_repetition so far, oldest
              \* first; kept by SpecLog only, empty elsewhere
VARIABLES
    original,   \* the row as stored before two review submissions began
    submission  \* per review submission: where it stands, the UserWord
                \* instance it loaded and the quality it passed; both kept
                \* by SpecRace only

VARIABLES
    user,       \* the User row: the fields update_streak, add_xp and
                \* level_progress_percentage read and write; kept by
                \* SpecUser and SpecStoredUser only
    writing     \* the WritingSubmission row: the component scores, the
                \* overall score and the number of save() calls; kept by
                \* SpecWriting only

vars == <<word, now, calls, call, log, original, submission, user, writing>>

\* the variables the specifications of one row and one caller leave alone
apart == <<original, submission, user, writing>>

\* STATUS_CHOICES
STATUS_CHOICES == {"new", "learning", "review", "learned", "ignored"}

\* a null=True field holding None, and holding a value
None == <<>>
Some(v) == <<v>>

\* a datetime is <<days, ticks>>; datetime + timedelta(days=n)
At(t) == <<0, t>>
PlusDays(dt, n) == <<dt[1] + n, dt[2]>>

\* the qualities a caller may pass: update_repetition takes any integer, the
\* documented scale is 0..5; -1 and 6 are the nearest integers outside it
Qualities == (0 - 1)..6
ValidQualities == 0..5

\* the field defaults of a new UserWord
DefaultWord ==
    [ repetitions           |-> 0,
      easiness_factor       |-> F_2_5,
      interval              |-> 1,
      next_review           |-> At(0),
      status                |-> "new",
      times_reviewed        |-> 0,
      times_correct         |-> 0,
      times_incorrect       |-> 0,
      streak                |-> 0,
      last_response_quality |-> None,
      last_reviewed         |-> None,
      learned_date          |-> None ]

(***************************************************************************)
(* update_repetition(self, quality), statement by statement.               *)
(***************************************************************************)
\* quality >= 3
IsCorrect(quality) == quality >= 3

\* mutant: the penalty loses its quadratic term, (5.0 - quality) * 0.08
Penalty_Linear(quality) ==
    FMulInt(5 - quality, F_0_08)

\* (5.0 - quality) * (0.08 + (5.0 - quality) * 0.02)
Penalty(quality) ==
    FMulInt(5 - quality, FAdd(F_0_08, FMulInt(5 - quality, F_0_02)))

\* mutant: the failure branch forgets max(1.3, ...)
NewEasiness_NoFloorOnFailure(self, quality) ==
    IF IsCorrect(quality)
    THEN FMax(F_1_3, FSub(FAdd(self.easiness_factor, F_0_1), Penalty(quality)))
    ELSE FSub(self.easiness_factor, F_0_2)

\* mutant: the success branch forgets max(1.3, ...)
NewEasiness_NoFloorOnSuccess(self, quality) ==
    IF IsCorrect(quality)
    THEN FSub(FAdd(self.easiness_factor, F_0_1), Penalty(quality))
    ELSE FMax(F_1_3, FSub(self.easiness_factor, F_0_2))

\* self.easiness_factor after the first if/else
NewEasiness(self, quality) ==
    IF IsCorrect(quality)
    THEN FMax(F_1_3, FSub(FAdd(self.easiness_factor, F_0_1), Penalty(quality)))
    ELSE FMax(F_1_3, FSub(self.easiness_factor, F_0_2))

\* mutant: the first successful review keeps the stored interval
NewInterval_KeepsFirst(self, quality) ==
    IF IsCorrect(quality)
    THEN IF self.repetitions = 0 THEN self.interval
         ELSE IF self.repetitions = 1 THEN 6
         ELSE PyRound(FMulInt(self.interval, self.easiness_factor))
    ELSE 1

\* mutant: the second successful review is scaled like the later ones
NewInterval_NoSecondStep(self, quality) ==
    IF IsCorrect(quality)
    THEN IF self.repetitions = 0 THEN 1
         ELSE PyRound(FMulInt(self.interval, self.easiness_factor))
    ELSE 1

\* mutant: the interval is scaled by the easiness factor adjusted by this
\* review, as if the two statements were swapped
NewInterval_UsesNewEasiness(self, quality) ==
    IF IsCorrect(quality)
    THEN IF self.repetitions = 0 THEN 1
         ELSE IF self.repetitions = 1 THEN 6
         ELSE PyRound(FMulInt(self.interval, NewEasiness(self, quality)))
    ELSE 1

\* mutant: a failing review schedules the word for the same day
NewInterval_ZeroOnFailure(self, quality) ==
    IF IsCorrect(quality)
    THEN IF self.repetitions = 0 THEN 1
         ELSE IF self.repetitions = 1 THEN 6
         ELSE PyRound(FMulInt(self.interval, self.easiness_factor))
    ELSE 0

\* self.interval after the first if/else; it is computed before
\* self.easiness_factor is reassigned
NewInterval(self, quality) ==
    IF IsCorrect(quality)
    THEN IF self.repetitions = 0 THEN 1
         ELSE IF self.repetitions = 1 THEN 6
         ELSE PyRound(FMulInt(self.interval, self.easiness_factor))
    ELSE 1

\* mutant: a failing review leaves the repetitions as they are
NewRepetitions_NoReset(self, quality) ==
    IF IsCorrect(quality) THEN self.repetitions + 1 ELSE self.repetitions

\* self.repetitions after the first if/else
NewRepetitions(self, quality) ==
    IF IsCorrect(quality) THEN self.repetitions + 1 ELSE 0

\* mutant: a failing review leaves the streak as it is
NewStreak_NoReset(self, quality) ==
    IF IsCorrect(quality) THEN self.streak + 1 ELSE self.streak

\* self.streak after the stats update
NewStreak(self, quality) ==
    IF IsCorrect(quality) THEN self.streak + 1 ELSE 0

\* mutant: times_incorrect is incremented outside the else branch, on every
\* review
NewTimesIncorrect_EveryReview(self, quality) == self.times_incorrect + 1

\* self.times_incorrect after the stats update
NewTimesIncorrect(self, quality) ==
    IF IsCorrect(quality)
    THEN self.times_incorrect
    ELSE self.times_incorrect + 1

\* mutant: 'learned' asks for one repetition more
IsLearned_SixRepetitions(repetitions, easiness_factor) ==
    repetitions >= 6 /\ FGe(easiness_factor, F_2_5)

\* self.repetitions >= 5 and self.easiness_factor >= 2.5
IsLearned(repetitions, easiness_factor) ==
    repetitions >= 5 /\ FGe(easiness_factor, F_2_5)

\* mutant: the repetitions > 0 test comes first, so 'learned' is never set
NewStatus_ReviewFirst(repetitions, easiness_factor) ==
    IF repetitions > 0 THEN "review"
    ELSE IF IsLearned(repetitions, easiness_factor) THEN "learned"
    ELSE "learning"

\* mutant: repetitions >= 0 instead of repetitions > 0
NewStatus_ZeroIsReview(repetitions, easiness_factor) ==
    IF IsLearned(repetitions, easiness_factor) THEN "learned"
    ELSE IF repetitions >= 0 THEN "review"
    ELSE "learning"

\* mutant: the else branch falls back to the field default 'new'
NewStatus_ZeroIsNew(repetitions, easiness_factor) ==
    IF IsLearned(repetitions, easiness_factor) THEN "learned"
    ELSE IF repetitions > 0 THEN "review"
    ELSE "new"

\* self.status after the status update
NewStatus(repetitions, easiness_factor) ==
    IF IsLearned(repetitions, easiness_factor) THEN "learned"
    ELSE IF repetitions > 0 THEN "review"
    ELSE "learning"

\* mutant: the status update runs first, on the repetitions and the
\* easiness factor the row had before this review
update_repetition_StatusFirst(self, quality, t1, t2, t3) ==
    LET interval        == NewInterval(self, quality)
        repetitions     == NewRepetitions(self, quality)
        easiness_factor == NewEasiness(self, quality)
    IN  [ repetitions           |-> repetitions,
          easiness_factor       |-> easiness_factor,
          interval              |-> interval,
          next_review           |-> PlusDays(At(t1), interval),
          status                |-> NewStatus(self.repetitions, self.easiness_factor),
          times_reviewed        |-> self.times_reviewed + 1,
          times_correct         |-> IF IsCorrect(quality)
                                    THEN self.times_correct + 1
                                    ELSE self.times_correct,
          times_incorrect       |-> NewTimesIncorrect(self, quality),
          streak                |-> NewStreak(self, quality),
          last_response_quality |-> Some(quality),
          last_reviewed         |-> Some(At(t2)),
          learned_date          |-> IF IsLearned(self.repetitions, self.easiness_factor)
                                    THEN Some(At(t3))
                                    ELSE self.learned_date ]

\* the row update_repetition saves; t1, t2, t3 are what the three
\* datetime.now() calls return, in the order the code makes them
update_repetition(self, quality, t1, t2, t3) ==
    LET interval        == NewInterval(self, quality)
        repetitions     == NewRepetitions(self, quality)
        easiness_factor == NewEasiness(self, quality)
    IN  [ repetitions           |-> repetitions,
          easiness_factor       |-> easiness_factor,
          interval              |-> interval,
          next_review           |-> PlusDays(At(t1), interval),
          status                |-> NewStatus(repetitions, easiness_factor),
          times_reviewed        |-> self.times_reviewed + 1,
          times_correct         |-> IF IsCorrect(quality)
                                    THEN self.times_correct + 1
                                    ELSE self.times_correct,
          times_incorrect       |-> NewTimesIncorrect(self, quality),
          streak                |-> NewStreak(self, quality),
          last_response_quality |-> Some(quality),
          last_reviewed         |-> Some(At(t2)),
          learned_date          |-> IF IsLearned(repetitions, easiness_factor)
                                    THEN Some(At(t3))
                                    ELSE self.learned_date ]

(***************************************************************************)
(* Actions.                                                                *)
(***************************************************************************)
\* one call of update_repetition: the clock may advance before each of its
\* datetime.now() reads; the third read happens only on the 'learned' branch
Review(bound) ==
    /\ calls < bound
    /\ \E quality \in Qualities :
       \E t1 \in now..MaxClock :
       \E t2 \in t1..MaxClock :
       \E t3 \in t2..MaxClock :
          /\ (IsLearned(NewRepetitions(word, quality), NewEasiness(word, quality))
                \/ t3 = t2)
          /\ word' = update_repetition(word, quality, t1, t2, t3)
          /\ now' = t3
          /\ calls' = calls + 1
          /\ call' = [ op      |-> "update_repetition",
                       quality |-> quality,
                       before  |-> word,
                       run     |-> IF call.op = "update_repetition"
                                      /\ call.quality = quality
                                   THEN call.run + 1 ELSE 1 ]
          /\ UNCHANGED <<log, apart>>

\* the learner opts out of the word: status is set to 'ignored' from outside
\* update_repetition
Ignore ==
    /\ word.status # "ignored"
    /\ word' = [word EXCEPT !.status = "ignored"]
    /\ call' = [op |-> "ignore", quality |-> 0, before |-> word, run |-> 0]
    /\ UNCHANGED <<now, calls, log, apart>>

\* no review submissions in flight
NoSubmissions == [p \in {} |-> None]

InitApart ==
    /\ original = None
    /\ submission = NoSubmissions
    /\ user = None
    /\ writing = None

\* a row just created with the field defaults
Init ==
    /\ word = DefaultWord
    /\ now = 0
    /\ calls = 0
    /\ call = [op |-> "create", quality |-> 0, before |-> DefaultWord, run |-> 0]
    /\ log = <<>>
    /\ InitApart

Next ==
    \/ Review(MaxReviews)
    \/ Ignore

Spec == Init /\ [][Next]_vars

\* A stored row with any scheduling fields of their domains: update_repetition
\* reads repetitions, interval and easiness_factor, whatever wrote them.
StoredWords ==
    { [ DefaultWord EXCEPT
          !.repetitions     = r,
          !.easiness_factor = Lit(ef),
          !.interval        = i,
          !.status          = st,
          !.streak          = r,
          !.times_reviewed  = r,
          !.times_correct   = r ] :
      r \in {0, 1, 2, 5}, ef \in {130, 145, 250, 290}, i \in {1, 3, 45},
      st \in STATUS_CHOICES }

InitAny ==
    /\ word \in { w \in StoredWords :
                    \/ w.status = "ignored"
                    \/ w.status = "new" /\ w.repetitions = 0
                    \/ w.status = NewStatus(w.repetitions, w.easiness_factor) }
    /\ now = 0
    /\ calls = 0
    /\ call = [op |-> "create", quality |-> 0, before |-> word, run |-> 0]
    /\ log = <<>>
    /\ InitApart

NextAny ==
    \/ Review(MaxAnyReviews)
    \/ Ignore

SpecAny == InitAny /\ [][NextAny]_vars

\* one call of update_repetition within one tick of the clock: its three
\* datetime.now() reads return the same instant
ReviewSameTick(bound) ==
    /\ calls < bound
    /\ \E quality \in Qualities :
          /\ word' = update_repetition(word, quality, now, now, now)
          /\ calls' = calls + 1
          /\ call' = [ op      |-> "update_repetition",
                       quality |-> quality,
                       before  |-> word,
                       run     |-> IF call.op = "update_repetition"
                                      /\ call.quality = quality
                                   THEN call.run + 1 ELSE 1 ]
          /\ UNCHANGED <<now, log, apart>>

\* Longer runs of calls from the default row, all within one clock tick: the
\* scheduling fields do not depend on the clock.
NextLong == ReviewSameTick(MaxLongReviews)

SpecLong == Init /\ [][NextLong]_vars

\* one call of update_repetition within one tick of the clock, the quality
\* passed appended to the log
ReviewLogged(bound) ==
    /\ calls < bound
    /\ \E quality \in Qualities :
          /\ word' = update_repetition(word, quality, now, now, now)
          /\ calls' = calls + 1
          /\ call' = [ op      |-> "update_repetition",
                       quality |-> quality,
                       before  |-> word,
                       run     |-> IF call.op = "update_repetition"
                                      /\ call.quality = quality
                                   THEN call.run + 1 ELSE 1 ]
          /\ log' = Append(log, quality)
          /\ UNCHANGED <<now, apart>>

\* Every sequence of calls from the default row, with the sequence of
\* qualities kept.
NextLog == ReviewLogged(MaxLoggedReviews)

SpecLog == Init /\ [][NextLog]_vars

(***************************************************************************)
(* Two review submissions for the same (user, word) row.  Each one loads   *)
(* the row into a UserWord instance of its own and calls                   *)
(* update_repetition on it, which computes on the instance and ends with   *)
(* self.save(): every field of the instance is written over the stored     *)
(* row.  Nothing in update_repetition locks the row or compares a version. *)
(***************************************************************************)
Submissions == {1, 2}

\* the caller fetches the row into a fresh instance
Load(p) ==
    /\ submission[p].pc = "start"
    /\ submission' = [submission EXCEPT ![p] =
                        [pc |-> "loaded", instance |-> word, quality |-> None]]
    /\ UNCHANGED <<word, now, calls, call, log, original, user, writing>>

\* update_repetition on the loaded instance, up to and including save()
UpdateAndSave(p) ==
    /\ submission[p].pc = "loaded"
    /\ \E quality \in ValidQualities :
          /\ word' = update_repetition(submission[p].instance, quality,
                                       now, now, now)
          /\ submission' = [submission EXCEPT ![p] =
                              [pc       |-> "saved",
                               instance |-> word',
                               quality  |-> Some(quality)]]
          /\ calls' = calls + 1
          /\ call' = [ op      |-> "update_repetition",
                       quality |-> quality,
                       before  |-> submission[p].instance,
                       run     |-> 1 ]
    /\ UNCHANGED <<now, log, original, user, writing>>

\* a stored row that update_repetition wrote, and two submissions about to
\* load it
InitRace ==
    /\ word \in { w \in StoredWords :
                    w.status = NewStatus(w.repetitions, w.easiness_factor) }
    /\ now = 0
    /\ calls = 0
    /\ call = [op |-> "create", quality |-> 0, before |-> word, run |-> 0]
    /\ log = <<>>
    /\ original = Some(word)
    /\ submission = [p \in Submissions |->
                       [pc |-> "start", instance |-> None, quality |-> None]]
    /\ user = None
    /\ writing = None

NextRace ==
    \E p \in Submissions :
       \/ Load(p)
       \/ UpdateAndSave(p)

SpecRace == InitRace /\ [][NextRace]_vars

(***************************************************************************)
(* The User row (src/accounts/models.py): streak, XP and level.            *)
(***************************************************************************)
\* the strings current_level may hold, in the order Python compares them:
\* the six of LEVEL_CHOICES, and two a CharField(max_length=2) can also
\* store, the blank one below them all and 'D1' above
LevelStrings == <<"", "A1", "A2", "B1", "B2", "C1", "C2", "D1">>

\* a < b on two of these strings
StrLess(a, b) ==
    (CHOOSE i \in 1..Len(LevelStrings) : LevelStrings[i] = a)
  < (CHOOSE i \in 1..Len(LevelStrings) : LevelStrings[i] = b)

\* the field defaults of a new User
DefaultUser ==
    [ current_level      |-> "A1",
      xp_points          |-> 0,
      streak_days        |-> 0,
      longest_streak     |-> 0,
      last_activity_date |-> None ]

\* mutant: an activity date that is not later than the last one leaves the
\* streak alone
NewStreakDays_EarlierKeeps(self, date) ==
    IF self.last_activity_date # None
    THEN LET days_diff == date - self.last_activity_date[1]
         IN  IF days_diff = 1 THEN self.streak_days + 1
             ELSE IF days_diff <= 0 THEN self.streak_days
             ELSE 1
    ELSE 1

\* streak_days after update_streak, dates counted in days
NewStreakDays(self, date) ==
    IF self.last_activity_date # None
    THEN LET days_diff == date - self.last_activity_date[1]
         IN  IF days_diff = 1 THEN self.streak_days + 1
             ELSE IF days_diff = 0 THEN self.streak_days
             ELSE 1
    ELSE 1

\* mutant: longest_streak follows streak_days
NewLongestStreak_Follows(self, streak_days) == streak_days

\* max(self.longest_streak, self.streak_days)
NewLongestStreak(self, streak_days) ==
    IF self.longest_streak >= streak_days
    THEN self.longest_streak ELSE streak_days

\* the row update_streak saves; activity_date is None or a date, today is
\* what timezone.now().date() returns
update_streak(self, activity_date, today) ==
    LET date        == IF activity_date # None THEN activity_date[1] ELSE today
        streak_days == NewStreakDays(self, date)
    IN  [ self EXCEPT
            !.streak_days        = streak_days,
            !.longest_streak     = NewLongestStreak(self, streak_days),
            !.last_activity_date = Some(date) ]

\* level_thresholds of check_level_up, in the order the dict is iterated
LevelUpThresholds ==
    << [level |-> "A2", threshold |-> 1000],
       [level |-> "B1", threshold |-> 3000],
       [level |-> "B2", threshold |-> 6000],
       [level |-> "C1", threshold |-> 10000],
       [level |-> "C2", threshold |-> 15000] >>

\* the loop of check_level_up from its i-th item on: the first item whose
\* threshold is reached and whose level is above current_level sets
\* current_level and ends the loop
RECURSIVE LevelUpFrom(_, _)
LevelUpFrom(self, i) ==
    IF i > Len(LevelUpThresholds) THEN self
    ELSE IF /\ self.xp_points >= LevelUpThresholds[i].threshold
            /\ StrLess(self.current_level, LevelUpThresholds[i].level)
         THEN [self EXCEPT !.current_level = LevelUpThresholds[i].level]
         ELSE LevelUpFrom(self, i + 1)

check_level_up(self) == LevelUpFrom(self, 1)

\* the row add_xp saves
add_xp(self, points) ==
    check_level_up([self EXCEPT !.xp_points = self.xp_points + points])

\* the amounts of XP a caller adds; add_xp takes any integer
Points == {0 - 500, 500, 1000, 3000, 15000}

\* one call of update_streak, with a date or without one; in the User
\* specifications the clock counts days
UpdateStreak(bound) ==
    /\ calls < bound
    /\ \E today \in now..MaxDay :
       \E activity_date \in {None} \cup { Some(d) : d \in 0..MaxDay } :
          /\ user' = update_streak(user, activity_date, today)
          /\ now' = today
          /\ calls' = calls + 1
          /\ call' = [ op            |-> "update_streak",
                       activity_date |-> activity_date,
                       today         |-> today,
                       before        |-> user ]
    /\ UNCHANGED <<word, log, original, submission, writing>>

\* one call of add_xp
AddXp(bound) ==
    /\ calls < bound
    /\ \E points \in Points :
          /\ user' = add_xp(user, points)
          /\ calls' = calls + 1
          /\ call' = [ op     |-> "add_xp",
                       points |-> points,
                       before |-> user ]
    /\ UNCHANGED <<word, now, log, original, submission, writing>>

\* a user just created with the field defaults
InitUser ==
    /\ user = DefaultUser
    /\ now = 0
    /\ calls = 0
    /\ call = [op |-> "create", before |-> DefaultUser]
    /\ word = None
    /\ log = <<>>
    /\ original = None
    /\ submission = NoSubmissions
    /\ writing = None

NextUser ==
    \/ UpdateStreak(MaxUserCalls)
    \/ AddXp(MaxUserCalls)

SpecUser == InitUser /\ [][NextUser]_vars

(***************************************************************************)
(* level_progress_percentage divides two integers and multiplies by 100,   *)
(* both in binary64.  These floats are of any magnitude, so they are kept  *)
(* as sign, mantissa and exponent: [neg, m, e] stands for                  *)
(*      (-1)^neg * (m[1] * 2^36 + m[2] * 2^18 + m[3]) * 2^e                *)
(* with the 53-bit mantissa in three limbs of 18 bits, 2^52 <= mantissa <  *)
(* 2^53, and zero as mantissa 0 with exponent 0.                           *)
(***************************************************************************)
Limb == Pow2(18)

B64Zero == [neg |-> FALSE, m |-> <<0, 0, 0>>, e |-> 0]

\* mantissa + 1; a carry out of the 53 bits moves the exponent
B64Up(m, e) ==
    IF m[3] + 1 < Limb THEN [m |-> <<m[1], m[2], m[3] + 1>>, e |-> e]
    ELSE IF m[2] + 1 < Limb THEN [m |-> <<m[1], m[2] + 1, 0>>, e |-> e]
    ELSE IF m[1] + 1 < Pow2(17) THEN [m |-> <<m[1] + 1, 0, 0>>, e |-> e]
    ELSE [m |-> <<Pow2(16), 0, 0>>, e |-> e + 1]

\* round to nearest, ties to even: low is what lies below the last place
\* of the mantissa, compared with half of that place
B64Nearest(neg, m, e, low, half) ==
    LET up == low > half \/ (low = half /\ m[3] % 2 = 1)
        r  == IF up THEN B64Up(m, e) ELSE [m |-> m, e |-> e]
    IN  [neg |-> neg, m |-> r.m, e |-> r.e]

\* the next n bits of the binary expansion of r / d, for 0 <= r < d, after
\* the bits acc, and the remainder left
RECURSIVE DivBits(_, _, _, _)
DivBits(r, d, n, acc) ==
    IF n = 0 THEN <<acc, r>>
    ELSE IF 2 * r >= d
         THEN DivBits(2 * r - d, d, n - 1, 2 * acc + 1)
         ELSE DivBits(2 * r, d, n - 1, 2 * acc)

\* n and d scaled by powers of two until d <= n < 2 * d; k is the power
\* of two the quotient n / d was multiplied by
RECURSIVE ScaleToUnit(_, _, _)
ScaleToUnit(n, d, k) ==
    IF n < d THEN ScaleToUnit(2 * n, d, k + 1)
    ELSE IF n >= 2 * d THEN ScaleToUnit(n, 2 * d, k - 1)
    ELSE <<n, d, k>>

\* a / b on two ints, b > 0: the quotient correctly rounded to binary64
TrueDiv(a, b) ==
    IF a = 0 THEN B64Zero
    ELSE LET n  == IF a < 0 THEN 0 - a ELSE a
             sc == ScaleToUnit(n, b, 0)
             d  == sc[2]
             b1 == DivBits(sc[1] - d, d, 16, 0)
             b2 == DivBits(b1[2], d, 18, 0)
             b3 == DivBits(b2[2], d, 18, 0)
         IN  B64Nearest(a < 0, <<Pow2(16) + b1[1], b2[1], b3[1]>>,
                        0 - 52 - sc[3], 2 * b3[2], d)

\* the number of bits of t above the 17th
RECURSIVE ExtraBits(_)
ExtraBits(t) == IF t < Pow2(17) THEN 0 ELSE 1 + ExtraBits(t \div 2)

\* x * k for a float x and an int k, 0 < k < 2^12: the product correctly
\* rounded to binary64
B64MulInt(x, k) ==
    IF x.m = <<0, 0, 0>> THEN x
    ELSE LET t3 == k * x.m[3]
             t2 == k * x.m[2] + t3 \div Limb
             t1 == k * x.m[1] + t2 \div Limb
             p3 == t3 % Limb
             p2 == t2 % Limb
             dd == ExtraBits(t1)
             sh == Pow2(dd)
             up == Pow2(18 - dd)
         IN  B64Nearest(x.neg,
                        << t1 \div sh,
                           (t1 % sh) * up + p2 \div sh,
                           (p2 % sh) * up + p3 \div sh >>,
                        x.e + dd, 2 * (p3 % sh), sh)

\* the int k, 0 < k < 2^17, as a float
B64FromInt(k) == TrueDiv(k, 1)

\* x > 0 and x < y, for floats
B64Positive(x) == x.m # <<0, 0, 0>> /\ ~x.neg
B64Less(x, y) ==
    IF x.m = <<0, 0, 0>> THEN B64Positive(y)
    ELSE IF y.m = <<0, 0, 0>> THEN x.neg
    ELSE IF x.neg # y.neg THEN x.neg
    ELSE LET below == \/ x.e < y.e
                      \/ x.e = y.e /\ x.m[1] < y.m[1]
                      \/ x.e = y.e /\ x.m[1] = y.m[1] /\ x.m[2] < y.m[2]
                      \/ x.e = y.e /\ x.m[1] = y.m[1] /\ x.m[2] = y.m[2]
                                   /\ x.m[3] < y.m[3]
         IN  IF x.neg THEN ~below /\ x # y ELSE below

(***************************************************************************)
(* User.level_progress_percentage and User.get_next_level.  A value the    *)
(* property returns is a Python int or a Python float.                     *)
(***************************************************************************)
PyInt(n) == <<"int", n>>
PyFloat(x) == <<"float", x>>

\* level_thresholds.get(level, 0), of level_progress_percentage
LevelThreshold(level) ==
    CASE level = "A1" -> 0
      [] level = "A2" -> 1000
      [] level = "B1" -> 3000
      [] level = "B2" -> 6000
      [] level = "C1" -> 10000
      [] level = "C2" -> 15000
      [] OTHER        -> 0

\* levels, of get_next_level
levels == <<"A1", "A2", "B1", "B2", "C1", "C2">>

\* the level after current_level, None for the last level and for a string
\* that is not in the list (levels.index raises ValueError)
get_next_level(self) ==
    IF \E i \in 1..Len(levels) : levels[i] = self.current_level
    THEN LET current_index == CHOOSE i \in 1..Len(levels) :
                                 levels[i] = self.current_level
         IN  IF current_index < Len(levels)
             THEN Some(levels[current_index + 1])
             ELSE None
    ELSE None

\* mutant: only the upper end is clamped
Clamp_UpperOnly(progress) ==
    IF B64Less(progress, B64FromInt(100)) THEN PyFloat(progress) ELSE PyInt(100)

\* min(100, max(0, progress)): max returns its first argument unless the
\* second is greater, min its first argument unless the second is smaller
Clamp(progress) ==
    IF B64Positive(progress)
    THEN IF B64Less(progress, B64FromInt(100))
         THEN PyFloat(progress)
         ELSE PyInt(100)
    ELSE PyInt(0)

\* the value of the property level_progress_percentage
level_progress_percentage(self) ==
    LET current_threshold == LevelThreshold(self.current_level)
        next_level        == get_next_level(self)
    IN  IF next_level = None
        THEN PyInt(100)
        ELSE LET next_threshold == LevelThreshold(next_level[1])
                 progress == B64MulInt(TrueDiv(self.xp_points - current_threshold,
                                               next_threshold - current_threshold),
                                       100)
             IN  Clamp(progress)

\* reading the property
ReadProgress ==
    /\ call' = [ op     |-> "level_progress_percentage",
                 result |-> level_progress_percentage(user),
                 before |-> user ]
    /\ UNCHANGED <<word, now, calls, log, original, submission, user, writing>>

\* the XP a stored user may have: xp_points is an IntegerField, and save()
\* does not run its validator
StoredXp == {0 - 500, 0, 1, 333, 999, 1000, 2999, 3000, 5000, 6000, 9999,
             10000, 14999, 15000, 20000}

\* a stored user with any level string and any XP
InitStoredUser ==
    /\ user \in { [DefaultUser EXCEPT !.current_level = lv, !.xp_points = xp] :
                    lv \in { LevelStrings[i] : i \in 1..Len(LevelStrings) },
                    xp \in StoredXp }
    /\ now = 0
    /\ calls = 0
    /\ call = [op |-> "create", before |-> user]
    /\ word = None
    /\ log = <<>>
    /\ original = None
    /\ submission = NoSubmissions
    /\ writing = None

NextStoredUser ==
    \/ AddXp(MaxStoredUserCalls)
    \/ ReadProgress

SpecStoredUser == InitStoredUser /\ [][NextStoredUser]_vars

(***************************************************************************)
(* The WritingSubmission row (src/writing/models.py): the overall score.   *)
(***************************************************************************)
\* sum(), of a sequence of integers
RECURSIVE sum(_)
sum(xs) == IF xs = <<>> THEN 0 ELSE Head(xs) + sum(Tail(xs))

\* scores, of calculate_overall_score
Scores(self) ==
    << self.grammar_score, self.vocabulary_score,
       self.coherence_score, self.task_completion_score >>

\* mutant: a null component counts as 0
ValidScores_NullIsZero(self) ==
    [ i \in 1..Len(Scores(self)) |->
        IF Scores(self)[i] # None THEN Scores(self)[i][1] ELSE 0 ]

\* valid_scores: [s for s in scores if s is not None]
ValidScores(self) ==
    LET present == SelectSeq(Scores(self), LAMBDA sc : sc # None)
    IN  [ i \in 1..Len(present) |-> present[i][1] ]

\* the row after calculate_overall_score; saves counts the save() calls
\* made on the row
calculate_overall_score(self) ==
    LET valid_scores == ValidScores(self)
    IN  IF valid_scores # <<>>
        THEN [ self EXCEPT
                 !.overall_score = Some(sum(valid_scores) \div Len(valid_scores)),
                 !.saves         = self.saves + 1 ]
        ELSE self

\* the values a score field holds: null, or an integer; the validators name
\* 0..100, and save() does not run them
ScoreValues == {None} \cup { Some(v) : v \in {0 - 3, 0, 1, 50, 100} }

\* one call of calculate_overall_score
CalculateOverallScore(bound) ==
    /\ calls < bound
    /\ writing' = calculate_overall_score(writing)
    /\ calls' = calls + 1
    /\ call' = [op |-> "calculate_overall_score", before |-> writing]
    /\ UNCHANGED <<word, now, log, original, submission, user>>

\* a submission with any component scores, scored before or not
InitWriting ==
    /\ writing \in [ grammar_score         : ScoreValues,
                      vocabulary_score      : ScoreValues,
                      coherence_score       : ScoreValues,
                      task_completion_score : ScoreValues,
                      overall_score         : {None, Some(50)},
                      saves                 : {0} ]
    /\ now = 0
    /\ calls = 0
    /\ call = [op |-> "create", before |-> writing]
    /\ word = None
    /\ log = <<>>
    /\ original = None
    /\ submission = NoSubmissions
    /\ user = None

NextWriting == CalculateOverallScore(MaxWritingCalls)

SpecWriting == InitWriting /\ [][NextWriting]_vars

(***************************************************************************)
(* Properties.                                                             *)
(***************************************************************************)
\* the last operation was update_repetition with a quality of S
Reviewed(S) == call.op = "update_repetition" /\ call.quality \in S

\* C1: for every prior row and every quality of 0, 1, 2, one update leaves
\* repetitions = 0, interval = 1, streak = 0 and
\* easiness_factor = max(1.3, prior easiness_factor - 0.2)
C1_FailureResets ==
    Reviewed(0..2) =>
        /\ word.repetitions = 0
        /\ word.interval = 1
        /\ word.streak = 0
        /\ word.easiness_factor = FMax(F_1_3, FSub(call.before.easiness_factor, F_0_2))

\* a failing review of a row with repetitions, a streak and an interval to
\* lose, whose easiness factor the floor of 1.3 caught
C1_Witness ==
    /\ Reviewed(0..2)
    /\ call.before.repetitions > 0
    /\ call.before.streak > 0
    /\ call.before.interval > 1
    /\ FGe(call.before.easiness_factor, F_1_3)
    /\ ~FGe(FSub(call.before.easiness_factor, F_0_2), F_1_3)
    /\ word.easiness_factor = F_1_3

\* C2: an update with a quality outside 0..5 is rejected and leaves every
\* field of the row as it was
C2_InvalidQualityRejected ==
    Reviewed(Qualities \ ValidQualities) => word = call.before

\* C3: an update of a row whose status is 'ignored' is refused: the status
\* and the scheduling fields stay as they were
C3_IgnoredIsAbsorbing ==
    (call.op = "update_repetition" /\ call.before.status = "ignored") =>
        /\ word.status = "ignored"
        /\ word.repetitions = call.before.repetitions
        /\ word.easiness_factor = call.before.easiness_factor
        /\ word.interval = call.before.interval
        /\ word.next_review = call.before.next_review

\* C4: in every state reached from the default row, by updates of any
\* qualities, easiness_factor >= 1.3; and a failing update of a row at
\* exactly 1.3 leaves it at exactly 1.3
C4_EasinessFloor ==
    /\ FGe(word.easiness_factor, F_1_3)
    /\ (call.op = "update_repetition" /\ call.quality < 3
          /\ call.before.easiness_factor = F_1_3)
       => word.easiness_factor = F_1_3

\* a failing update of a row that was at the floor already
C4_Witness ==
    /\ call.op = "update_repetition"
    /\ call.quality < 3
    /\ call.before.easiness_factor = F_1_3
    /\ word.easiness_factor = F_1_3
    /\ word.times_incorrect >= 2

\* C5: right after every update, status = 'learned' if and only if
\* repetitions >= 5 and easiness_factor >= 2.5
C5_LearnedIff ==
    Reviewed(Qualities) =>
        (word.status = "learned"
            <=> (word.repetitions >= 5 /\ FGe(word.easiness_factor, F_2_5)))

\* the update that first makes a row 'learned': its fifth repetition in a
\* row, with an easiness factor of at least 2.5
C5_Witness ==
    /\ Reviewed(ValidQualities)
    /\ word.status = "learned"
    /\ word.repetitions = 5
    /\ call.before.status # "learned"

\* C6: from the fresh row, five updates in a row with quality 5 end with
\* status 'learned', and the status is not 'learned' after any of the first
\* four
C6_FiveFives ==
    (Reviewed({5}) /\ call.run = calls) =>
        /\ calls = 5 => word.status = "learned"
        /\ calls < 5 => word.status # "learned"

\* the fifth of five quality-5 updates of the fresh row has run
C6_Witness ==
    /\ Reviewed({5})
    /\ call.run = 5
    /\ calls = 5
    /\ word.times_reviewed = 5
    /\ word.status = "learned"

\* C7: from any row with status 'learned', one update with a failing quality
\* (below 3) gives repetitions = 0 and status = 'learning'
C7_LearnedRegresses ==
    (call.op = "update_repetition" /\ call.quality < 3
        /\ call.before.status = "learned") =>
        /\ word.repetitions = 0
        /\ word.status = "learning"

\* a 'learned' row with five repetitions has just failed a review
C7_Witness ==
    /\ Reviewed({2})
    /\ call.before.status = "learned"
    /\ call.before.repetitions >= 5
    /\ word.status = "learning"

\* C8: for every quality of 3, 4, 5, an update of a row with repetitions = 0
\* gives interval = 1 and repetitions = 1, whatever the interval and the
\* easiness factor were
C8_FirstSuccess ==
    (Reviewed(3..5) /\ call.before.repetitions = 0) =>
        /\ word.interval = 1
        /\ word.repetitions = 1

\* the first success of a row that was stored with another interval
C8_Witness ==
    /\ Reviewed(3..5)
    /\ call.before.repetitions = 0
    /\ call.before.interval > 1
    /\ call.before.easiness_factor # F_2_5
    /\ word.interval = 1

\* C9: for every quality of 3, 4, 5, an update of a row with repetitions = 1
\* gives interval = 6 and repetitions = 2, whatever the interval and the
\* easiness factor were
C9_SecondSuccess ==
    (Reviewed(3..5) /\ call.before.repetitions = 1) =>
        /\ word.interval = 6
        /\ word.repetitions = 2

\* the second success of a row whose interval times its easiness factor does
\* not round to 6
C9_Witness ==
    /\ Reviewed(3..5)
    /\ call.before.repetitions = 1
    /\ PyRound(FMulInt(call.before.interval, call.before.easiness_factor)) # 6
    /\ word.interval = 6

\* C10: for every quality of 3, 4, 5, an update of a row with
\* repetitions >= 2 gives interval = round(prior interval * prior easiness
\* factor), the easiness factor as it was before this update adjusted it, and
\* repetitions = prior repetitions + 1
C10_LaterSuccess ==
    (Reviewed(3..5) /\ call.before.repetitions >= 2) =>
        /\ word.interval =
             PyRound(FMulInt(call.before.interval, call.before.easiness_factor))
        /\ word.repetitions = call.before.repetitions + 1

\* a later success where the adjusted easiness factor would have given
\* another interval, reached from the default row
C10_Witness ==
    /\ Reviewed(3..5)
    /\ call.before.repetitions >= 2
    /\ word.interval # PyRound(FMulInt(call.before.interval, word.easiness_factor))
    /\ word.interval > call.before.interval

\* the update formula of the easiness factor, each operation in binary64:
\* max(1.3, ef + 0.1 - (5 - q) * (0.08 + (5 - q) * 0.02))
ClosedForm(ef, q) ==
    FMax(Lit(130),
         FSub(FAdd(ef, Lit(10)),
              FMulInt(5 - q, FAdd(Lit(8), FMulInt(5 - q, Lit(2))))))

\* what quality q adds to the easiness factor, in hundredths
DeltaOf(q) == IF q = 5 THEN 10 ELSE IF q = 4 THEN 0 ELSE 0 - 14

\* |a - b| < 2^-50 for two floats of the same hundredths
Within2ulp(a, b) ==
    /\ a[1] = b[1]
    /\ a[2] - b[2] < 25 * Pow2(8)
    /\ b[2] - a[2] < 25 * Pow2(8)

C12_FiveFourFive ==
    LET ef1 == ClosedForm(Lit(250), 5)
        ef2 == ClosedForm(ef1, 4)
        ef3 == ClosedForm(ef2, 5)
    IN  /\ log = <<5>> =>
             /\ word.interval = 1
             /\ word.repetitions = 1
             /\ word.easiness_factor = ef1
        /\ log = <<5, 4>> =>
             /\ word.interval = 6
             /\ word.repetitions = 2
             /\ word.easiness_factor = ef2
        /\ log = <<5, 4, 5>> =>
             /\ word.interval = PyRound(FMulInt(6, ef2))
             /\ word.interval = 16
             /\ word.repetitions = 3
             /\ word.easiness_factor = ef3

\* the third review of the scenario has run
C12_Witness ==
    /\ log = <<5, 4, 5>>
    /\ call.before.interval = 6
    /\ word.interval = 16
    /\ word.repetitions = 3

\* C13: learned_date is set at the first update that makes the status
\* 'learned', and every later update leaves it as it is
C13_LearnedDateSetOnce ==
    Reviewed(Qualities) =>
        /\ (call.before.learned_date = None /\ word.status = "learned")
              => word.learned_date # None
        /\ call.before.learned_date # None
              => word.learned_date = call.before.learned_date

\* C14: after every update next_review is last_reviewed plus interval days,
\* both from the same instant, also when the clock advances during the update
C14_NextReviewFromLastReviewed ==
    Reviewed(Qualities) =>
        word.next_review = PlusDays(word.last_reviewed[1], word.interval)

\* C15: no update produces status 'new' or 'ignored'; 'new' occurs only in a
\* row that was never reviewed, and 'ignored' only right after the action
\* that sets it, which is not update_repetition
C15_NewAndIgnoredNotProduced ==
    /\ Reviewed(Qualities) => word.status \notin {"new", "ignored"}
    /\ word.status = "new" => (calls = 0 /\ word.times_reviewed = 0)
    /\ word.status = "ignored" => call.op = "ignore"

\* the first review of a row, which leaves 'new', and of an ignored row
C15_Witness ==
    /\ Reviewed(ValidQualities)
    /\ call.before.status \in {"new", "ignored"}
    /\ call.before.times_reviewed = 0
    /\ word.status = "learning"

\* the clock readings one call may get when its first reading is r
ReadsFrom(self, quality, r) ==
    { t \in (r..MaxClock) \X (r..MaxClock) \X (r..MaxClock) :
        /\ t[1] = r
        /\ t[2] >= t[1]
        /\ t[3] >= t[2]
        /\ (IsLearned(NewRepetitions(self, quality), NewEasiness(self, quality))
              \/ t[3] = t[2]) }

\* C16: the update is a function of (row, quality, now): every run of the
\* call that has just ended, on the same row with the same quality and the
\* same clock reading at its start, ends in the same row
C16_Deterministic ==
    Reviewed(Qualities) =>
        \A t \in ReadsFrom(call.before, call.quality, word.next_review[2]) :
            update_repetition(call.before, call.quality, t[1], t[2], t[3]) = word

\* C17: every update with a quality of 0..5 adds 1 to times_reviewed and
\* sets last_response_quality to the quality; with quality >= 3 it adds 1 to
\* times_correct and to streak and leaves times_incorrect; with quality < 3
\* it adds 1 to times_incorrect, sets streak to 0 and leaves times_correct
C17_Counters ==
    Reviewed(ValidQualities) =>
        /\ word.times_reviewed = call.before.times_reviewed + 1
        /\ word.last_response_quality = <<call.quality>>
        /\ call.quality >= 3 =>
             /\ word.times_correct = call.before.times_correct + 1
             /\ word.streak = call.before.streak + 1
             /\ word.times_incorrect = call.before.times_incorrect
        /\ call.quality < 3 =>
             /\ word.times_incorrect = call.before.times_incorrect + 1
             /\ word.streak = 0
             /\ word.times_correct = call.before.times_correct

\* a failing review that ended a streak, after an earlier failure
C17_Witness ==
    /\ Reviewed(0..2)
    /\ call.before.streak >= 2
    /\ call.before.times_incorrect >= 1
    /\ word.times_incorrect = call.before.times_incorrect + 1
    /\ word.streak = 0

\* C18: after every update whose result is not repetitions >= 5 with
\* easiness factor >= 2.5, the status is 'review' when the resulting
\* repetitions are > 0 and 'learning' when they are 0; the values are those
\* after this review's adjustments
C18_ReviewOrLearning ==
    (Reviewed(Qualities)
        /\ ~(word.repetitions >= 5 /\ FGe(word.easiness_factor, Lit(250)))) =>
        /\ word.repetitions > 0 => word.status = "review"
        /\ word.repetitions = 0 => word.status = "learning"

\* the fifth repetition of a row whose easiness factor this very review took
\* below 2.5: 'review', where the values before the review say 'learned' is
\* near and the values after say it is not
C18_Witness ==
    /\ Reviewed({3})
    /\ word.repetitions >= 5
    /\ FGe(call.before.easiness_factor, Lit(250))
    /\ ~FGe(word.easiness_factor, Lit(250))
    /\ word.status = "review"

\* the row after one more update with quality q, at the present instant
Then(w, q) == update_repetition(w, q, now, now, now)

\* some run of at most n quality-5 updates of w ends 'learned'
RECURSIVE LearnedWithin(_, _)
LearnedWithin(w, n) ==
    \/ w.status = "learned"
    \/ n > 0 /\ LearnedWithin(Then(w, 5), n - 1)

\* C19: none of 'learning', 'review', 'learned' is terminal: from every
\* reachable row with one of these statuses, a failing update leads to
\* 'learning', a quality-3 update after it to 'review', and quality-5
\* updates after the failure to 'learned' (13 of them at most: the easiness
\* factor may have to climb from 1.3 to 2.5)
C19_NoTerminalStatus ==
    word.status \in {"learning", "review", "learned"} =>
        /\ Then(word, 0).status = "learning"
        /\ Then(Then(word, 0), 3).status = "review"
        /\ LearnedWithin(Then(word, 0), 13)

\* a row that an update has made 'learned', which can still move to
\* 'learning' and to 'review'
C19_Witness ==
    /\ Reviewed(ValidQualities)
    /\ word.status = "learned"
    /\ Then(word, 0).status = "learning"
    /\ Then(Then(word, 0), 3).status = "review"

\* the number of qualities >= 3 at the end of a sequence of qualities
RECURSIVE TrailingSuccesses(_)
TrailingSuccesses(qs) ==
    IF qs = <<>> \/ qs[Len(qs)] < 3 THEN 0
    ELSE 1 + TrailingSuccesses(SubSeq(qs, 1, Len(qs) - 1))

\* C20: in every reachable state repetitions >= 0, and repetitions is the
\* number of successful updates (quality >= 3) in a row since the last
\* failing one, or since the row was created
C20_RepetitionsCountSuccesses ==
    /\ word.repetitions >= 0
    /\ word.repetitions = TrailingSuccesses(log)

\* two successes, a failure, two successes: the count restarted
C20_Witness ==
    /\ Len(log) = 5
    /\ log[1] >= 3 /\ log[2] >= 3 /\ log[3] < 3 /\ log[4] >= 3 /\ log[5] >= 3
    /\ call.before.repetitions = 1
    /\ word.repetitions = 2

\* C21: when two review submissions for the same row each load it, run
\* update_repetition and save it, interleaved in any order without
\* serialization, the stored row equals the result of one of the two
\* sequential orders: times_reviewed is the original value plus 2 and no
\* review is lost.
C21_Serializable ==
    (\A p \in Submissions : submission[p].pc = "saved") =>
        LET q1 == submission[1].quality[1]
            q2 == submission[2].quality[1]
        IN  /\ word.times_reviewed = original[1].times_reviewed + 2
            /\ word \in { Then(Then(original[1], q1), q2),
                           Then(Then(original[1], q2), q1) }

\* C22: update_streak(activity_date): with no last_activity_date the streak
\* becomes 1; one day after last_activity_date it increases by 1; on the
\* same day it is unchanged; for any other difference (two or more days
\* later, or an earlier date) it becomes 1; in all cases last_activity_date
\* becomes activity_date.
C22_UpdateStreak ==
    call.op = "update_streak" =>
        LET before == call.before
            date   == IF call.activity_date # None
                      THEN call.activity_date[1] ELSE call.today
            last   == before.last_activity_date
        IN  /\ user.last_activity_date = Some(date)
            /\ last = None => user.streak_days = 1
            /\ (last # None /\ date = last[1] + 1)
                  => user.streak_days = before.streak_days + 1
            /\ (last # None /\ date = last[1])
                  => user.streak_days = before.streak_days
            /\ (last # None /\ (date >= last[1] + 2 \/ date < last[1]))
                  => user.streak_days = 1

\* an update_streak call with an earlier date, on a streak of two days
C22_Witness ==
    /\ call.op = "update_streak"
    /\ call.before.last_activity_date # None
    /\ call.activity_date # None
    /\ call.activity_date[1] < call.before.last_activity_date[1]
    /\ call.before.streak_days = 2
    /\ user.streak_days = 1

\* the highest of the levels A2..C2 whose threshold xp_points has reached,
\* from the i-th item of the thresholds on; best is the highest so far
RECURSIVE HighestReached(_, _, _)
HighestReached(xp_points, i, best) ==
    IF i > Len(LevelUpThresholds) THEN best
    ELSE HighestReached(xp_points, i + 1,
                        IF xp_points >= LevelUpThresholds[i].threshold
                        THEN LevelUpThresholds[i].level ELSE best)

\* C23: after add_xp(points), whenever xp_points has reached the threshold
\* of a level above the level the user had before the call, current_level
\* is the highest of A2, B1, B2, C1, C2 whose threshold is <= xp_points,
\* also when one call crosses several thresholds.
C23_HighestLevelReached ==
    ( /\ call.op = "add_xp"
      /\ \E i \in 1..Len(LevelUpThresholds) :
            /\ user.xp_points >= LevelUpThresholds[i].threshold
            /\ StrLess(call.before.current_level, LevelUpThresholds[i].level) )
    => user.current_level = HighestReached(user.xp_points, 1, "A1")

\* the non-null values among the four component scores of a row
Components(w) ==
    { sc[1] : sc \in { w.grammar_score, w.vocabulary_score,
                       w.coherence_score, w.task_completion_score } \ {None} }

\* the number of non-null component scores of a row, and their total
Present(w) ==
    { f \in {"grammar_score", "vocabulary_score", "coherence_score",
             "task_completion_score"} : w[f] # None }
RECURSIVE Total(_, _)
Total(w, fs) ==
    IF fs = {} THEN 0
    ELSE LET f == CHOOSE g \in fs : TRUE
         IN  w[f][1] + Total(w, fs \ {f})

Within0To100(v) ==
    IF v[1] = "int"
    THEN 0 <= v[2] /\ v[2] <= 100
    ELSE /\ ~v[2].neg
         /\ ~B64Less(B64FromInt(100), v[2])

\* C25: level_progress_percentage is within 0..100 for any integer
\* xp_points (also below the threshold of the current level or above that
\* of the next one), and is 100 when the user has no next level
\* (current_level is C2 or none of the six levels).
C25_ProgressWithinRange ==
    call.op = "level_progress_percentage" =>
        /\ Within0To100(call.result)
        /\ call.before.current_level \notin {"A1", "A2", "B1", "B2", "C1"}
              => call.result = PyInt(100)

\* the property read with XP below the threshold of the current level:
\* (4500 - 6000) / 4000 * 100 is -37.5, and the value is 0
C25_Witness ==
    /\ call.op = "level_progress_percentage"
    /\ call.before.current_level = "B2"
    /\ call.before.xp_points = 4500
    /\ call.result = PyInt(0)

\* C26: in every state reachable from the default row by update_repetition
\* calls with qualities in 0..5, streak = repetitions.
C26_StreakIsRepetitions == word.streak = word.repetitions

\* a failing review after three successful ones
C26_Witness ==
    /\ Reviewed(0..2)
    /\ call.before.streak = 3
    /\ call.before.repetitions = 3
    /\ word.repetitions = 0

\* C27: in every state reachable from the default row by update_repetition
\* calls, times_reviewed = times_correct + times_incorrect, and
\* times_reviewed is the number of calls made.
C27_ReviewsAddUp ==
    /\ word.times_reviewed = word.times_correct + word.times_incorrect
    /\ word.times_reviewed = calls

\* four calls, failing and successful ones
C27_Witness ==
    /\ Reviewed(ValidQualities)
    /\ calls = 4
    /\ word.times_correct >= 1
    /\ word.times_incorrect >= 1

\* the repetitions, the easiness factor and the status a quality-5 update
\* gives a row; the status depends on nothing else, and the interval, which
\* outgrows the integers of the model checker over a long run, is left as
\* it is
AfterFive(w) ==
    LET repetitions     == NewRepetitions(w, 5)
        easiness_factor == NewEasiness(w, 5)
    IN  [ w EXCEPT
            !.repetitions     = repetitions,
            !.easiness_factor = easiness_factor,
            !.status          = NewStatus(repetitions, easiness_factor) ]

\* the status is 'learned', and stays 'learned' after each of the next k
\* quality-5 updates
RECURSIVE LearnedOver(_, _)
LearnedOver(w, k) ==
    /\ w.status = "learned"
    /\ k = 0 \/ LearnedOver(AfterFive(w), k - 1)

\* at most n quality-5 updates make the status 'learned', and it stays
\* 'learned' over k more of them
RECURSIVE FivesLearn(_, _, _)
FivesLearn(w, n, k) ==
    \/ LearnedOver(w, k)
    \/ n > 0 /\ FivesLearn(AfterFive(w), n - 1, k)

\* C28: from every reachable row whose status is not 'ignored', a long
\* enough uninterrupted run of quality-5 updates reaches status 'learned',
\* and the status stays 'learned' while only quality-5 updates follow
\* (12 updates are enough; the 3 that follow are checked).  Every
\* quality-5 update made gives the repetitions, easiness factor and status
\* the run is computed with.
C28_FivesReachLearned ==
    /\ word.status # "ignored" => FivesLearn(word, 12, 3)
    /\ Reviewed({5}) =>
          /\ word.repetitions = AfterFive(call.before).repetitions
          /\ word.easiness_factor = AfterFive(call.before).easiness_factor
          /\ word.status = AfterFive(call.before).status

\* a row at the floor of the easiness factor with no repetitions, which
\* needs all 12 updates
C28_Witness ==
    /\ Reviewed(Qualities)
    /\ word.status = "learning"
    /\ word.easiness_factor = F_1_3
    /\ ~FivesLearn(word, 11, 0)
    /\ FivesLearn(word, 12, 3)

\* C29: in every state reachable from the default User by update_streak
\* calls with any dates, longest_streak >= streak_days, and longest_streak
\* never decreases.
C29_LongestStreak ==
    /\ user.longest_streak >= user.streak_days
    /\ user.longest_streak >= call.before.longest_streak

\* an update_streak call that ends a streak of two days, which stays the
\* longest
C29_Witness ==
    /\ call.op = "update_streak"
    /\ call.before.streak_days = 2
    /\ user.streak_days = 1
    /\ user.longest_streak = 2

\* dt1 <= dt2 on two datetimes; the ticks within one call are shorter than
\* a day
DtLe(dt1, dt2) ==
    dt1[1] < dt2[1] \/ (dt1[1] = dt2[1] /\ dt1[2] <= dt2[2])

\* C30: in every state reachable from the default row by update_repetition
\* calls with qualities in 0..5, interval >= 1, so next_review is never
\* earlier than the moment of the review that set it.
C30_IntervalAtLeastOne ==
    /\ word.interval >= 1
    /\ Reviewed(Qualities) => DtLe(word.last_reviewed[1], word.next_review)

\* a failing review after the interval had grown, with the clock advancing
\* during the call
C30_Witness ==
    /\ Reviewed(0..2)
    /\ call.before.interval >= 6
    /\ word.interval = 1
    /\ word.last_reviewed[1][2] > word.next_review[2]

====
